---- MODULE Spec2Model ----
(***************************************************************************)
(* Model of maestrowf/interfaces/script/fluxscriptadapter.py: the two Flux *)
(* scheduler adapters, SpectrumFluxScriptAdapter (key "flux-spectrum") and *)
(* FluxScriptAdapter (key "flux").                                         *)
(*                                                                         *)
(* One adapter instance is modelled together with its single-threaded      *)
(* caller.  The caller is either idle or holds the value returned by the   *)
(* last call; every adapter method is one atomic action that runs the      *)
(* whole method body, including every remote call it issues.  The replies  *)
(* of the remote Flux service (rpc_send, kvs.get) are inputs of the action *)
(* and are recorded so that the properties can refer to them.              *)
(***************************************************************************)
EXTENDS Integers, Sequences, FiniteSets, TLC

VARIABLES
    variant,     \* which class the instance is: "spectrum" or "flux"
    python3,     \* TRUE when the interpreter is Python 3, FALSE for Python 2
    h,           \* self.h: "None" or "Flux" (the connection handle)
    pc,          \* the caller: "idle" or "returned"
    op,          \* the method the caller called last
    h_before,    \* self.h when the last call started
    flux_state,  \* argument of the last _state call
    step,        \* argument of the last submit call (step.run)
    reply,       \* what rpc_send("job.submit") answered in the last submit
    joblist,     \* argument of the last check_jobs call
    world,       \* what the key-value store holds for each requested job
    tool,        \* what "flux wreck cancel/kill" exits with for each job
    walltime,    \* the argument of _convert_walltime_to_seconds
    sched,       \* what get_scheduler_command returned to _write_script
    header,      \* the order in which self._header.items() yields its keys
    files,       \* the files that _write_script opened, with their lines
    environ,     \* os.environ as get_environment finds it
    batch,       \* self._batch, the adapter's default batch parameters
    has_nodes,   \* whether step.run still has its "nodes" key after the call
    sent,        \* the job requests the last call sent with job.submit
    calls,       \* the external calls the last call issued, in order
    ret          \* what the last call returned, or what it raised

vars == <<variant, python3, h, pc, op, h_before, flux_state, step, reply,
          joblist, world, tool, walltime, sched, header, files, environ,
          batch, has_nodes, sent,
          calls, ret>>

----------------------------------------------------------------------------
(* Bounds of the model.                                                    *)

MaxJobs == 2          \* longest job list handed to check_jobs
MaxJobId == 1         \* job identifiers are 0 .. MaxJobId
MaxNodes == 2         \* step.run["nodes"] is 0 .. MaxNodes
MaxProcs == 2         \* step.run["procs"] is absent or 0 .. MaxProcs
MaxCoresPerTask == 2  \* step.run["cores per task"] is absent, None or 0 .. Max

JobIds == 0 .. MaxJobId

----------------------------------------------------------------------------
(* Python values.  A dictionary entry that may be missing, None or a value *)
(* is a record [kind, val].                                                *)

Absent == [kind |-> "absent", val |-> 0]
NoneV == [kind |-> "none", val |-> 0]
IntV(n) == [kind |-> "int", val |-> n]

AbsentS == [kind |-> "absent", val |-> ""]
NoneS == [kind |-> "none", val |-> ""]
StrV(s) == [kind |-> "str", val |-> s]

\* dict.get(key, default): the default only replaces a missing key.
DictGet(entry, default) == IF entry.kind = "absent" THEN default ELSE entry

\* Python truth value of an optional integer entry (None and 0 are falsy).
Truthy(entry) == entry.kind = "int" /\ entry.val # 0

----------------------------------------------------------------------------
(* State translation.                                                      *)

\* Native state strings: the scheduler's vocabulary, and strings outside it.
NativeStrings ==
    {"running", "pending", "runrequest", "allocated", "starting",
     "submitted", "failed", "cancelled", "killed", "complete", "unknown",
     "Running", "COMPLETE", "canceled", "completed", "", "None"}

States ==
    {"RUNNING", "PENDING", "WAITING", "FAILED", "CANCELLED", "FINISHED",
     "UNKNOWN"}

\* SpectrumState with the "starting" marker forgotten.
SpectrumStateNoStarting(s) ==
    IF s = "running" THEN "RUNNING"
    ELSE IF s = "pending" \/ s = "runrequest" \/ s = "allocated"
    THEN "PENDING"
    ELSE IF s = "submitted" THEN "WAITING"
    ELSE IF s = "failed" THEN "FAILED"
    ELSE IF s = "cancelled" \/ s = "killed" THEN "CANCELLED"
    ELSE IF s = "complete" THEN "FINISHED"
    ELSE "UNKNOWN"

\* SpectrumFluxScriptAdapter._state
SpectrumState(s) ==
    IF s = "running" THEN "RUNNING"
    ELSE IF s = "pending" \/ s = "runrequest"
            \/ s = "allocated" \/ s = "starting" THEN "PENDING"
    ELSE IF s = "submitted" THEN "WAITING"
    ELSE IF s = "failed" THEN "FAILED"
    ELSE IF s = "cancelled" \/ s = "killed" THEN "CANCELLED"
    ELSE IF s = "complete" THEN "FINISHED"
    ELSE IF s = "unknown" THEN "UNKNOWN"
    ELSE "UNKNOWN"

\* FluxState taking a killed job for a failed one.
FluxStateKilledFailed(s) ==
    IF s = "running" THEN "RUNNING"
    ELSE IF s = "pending" \/ s = "runrequest"
            \/ s = "allocated" \/ s = "starting" THEN "PENDING"
    ELSE IF s = "submitted" THEN "WAITING"
    ELSE IF s = "failed" \/ s = "killed" THEN "FAILED"
    ELSE IF s = "cancelled" THEN "CANCELLED"
    ELSE IF s = "complete" THEN "FINISHED"
    ELSE "UNKNOWN"

\* FluxScriptAdapter._state
FluxState(s) ==
    IF s = "running" THEN "RUNNING"
    ELSE IF s = "pending" \/ s = "runrequest"
            \/ s = "allocated" \/ s = "starting" THEN "PENDING"
    ELSE IF s = "submitted" THEN "WAITING"
    ELSE IF s = "failed" THEN "FAILED"
    ELSE IF s = "cancelled" \/ s = "killed" THEN "CANCELLED"
    ELSE IF s = "complete" THEN "FINISHED"
    ELSE IF s = "unknown" THEN "UNKNOWN"
    ELSE "UNKNOWN"

\* self._state of the instance of class v.
_state(v, s) == IF v = "spectrum" THEN SpectrumState(s) ELSE FluxState(s)

----------------------------------------------------------------------------
(* Walltime conversion.  A walltime string is a sequence of characters.    *)

Digits == {"0", "1", "2", "3", "4", "5", "6", "7", "8", "9"}

DigitValue(c) ==
    CASE c = "0" -> 0 [] c = "1" -> 1 [] c = "2" -> 2 [] c = "3" -> 3
      [] c = "4" -> 4 [] c = "5" -> 5 [] c = "6" -> 6 [] c = "7" -> 7
      [] c = "8" -> 8 [] c = "9" -> 9

\* The fields of a string between its ":" separators.
RECURSIVE SplitColon(_)
SplitColon(s) ==
    IF s = <<>> THEN << <<>> >>
    ELSE LET rest == SplitColon(Tail(s))
         IN  IF Head(s) = ":" THEN << <<>> >> \o rest
             ELSE << <<Head(s)>> \o Head(rest) >> \o Tail(rest)

\* A strptime number field: one or two decimal digits.
IsField(f) == Len(f) \in 1..2 /\ \A i \in 1..Len(f) : f[i] \in Digits

FieldValue(f) ==
    IF Len(f) = 1 THEN DigitValue(f[1])
    ELSE 10 * DigitValue(f[1]) + DigitValue(f[2])

\* WalltimeParses without the ranges of the hour, minute and second.
WalltimeParsesAnyRange(w) ==
    LET f == SplitColon(w)
    IN  Len(f) = 3 /\ \A i \in 1..3 : IsField(f[i])

\* datetime.strptime(walltime, "%H:%M:%S") succeeds: three fields, the hour
\* in 0..23, the minute and the second in 0..59 (strptime reads a second of
\* 60 or 61, which the datetime constructor then rejects).
WalltimeParses(w) ==
    LET f == SplitColon(w)
    IN  /\ Len(f) = 3
        /\ \A i \in 1..3 : IsField(f[i])
        /\ FieldValue(f[1]) <= 23
        /\ FieldValue(f[2]) <= 59
        /\ FieldValue(f[3]) <= 59

\* _convert_walltime_to_seconds of both classes: the seconds, or the
\* ValueError that strptime raises.
_convert_walltime_to_seconds(w) ==
    IF WalltimeParses(w)
    THEN LET f == SplitColon(w)
         IN  [raised |-> "",
              seconds |-> FieldValue(f[1]) * 3600 + FieldValue(f[2]) * 60
                          + FieldValue(f[3])]
    ELSE [raised |-> "ValueError", seconds |-> 0]

\* The walltime strings a step is given: "01:30:00", "0:0:7", "24:00:00"
\* and "1:30".
Walltimes ==
    { <<"0", "1", ":", "3", "0", ":", "0", "0">>,
      <<"0", ":", "0", ":", "7">>,
      <<"2", "4", ":", "0", "0", ":", "0", "0">>,
      <<"1", ":", "3", "0">> }

\* The strings given to the conversion alone: "01:30:00", "23:59:59", "00:00:00", "1:2:3", "0:0:7"
\* (well formed) and "24:00:00", "01:60:00", "00:00:60", "1:30", "",
\* "a1:00:00", "001:00:00", "01:30:00:00", "01-30-00", "01:30:".
WalltimeArgs ==
    { <<"0", "1", ":", "3", "0", ":", "0", "0">>,
      <<"2", "3", ":", "5", "9", ":", "5", "9">>,
      <<"0", "0", ":", "0", "0", ":", "0", "0">>,
      <<"1", ":", "2", ":", "3">>,
      <<"0", ":", "0", ":", "7">>,
      <<"2", "4", ":", "0", "0", ":", "0", "0">>,
      <<"0", "1", ":", "6", "0", ":", "0", "0">>,
      <<"0", "0", ":", "0", "0", ":", "6", "0">>,
      <<"1", ":", "3", "0">>,
      <<>>,
      <<"a", "1", ":", "0", "0", ":", "0", "0">>,
      <<"0", "0", "1", ":", "0", "0", ":", "0", "0">>,
      <<"0", "1", ":", "3", "0", ":", "0", "0", ":", "0", "0">>,
      <<"0", "1", "-", "3", "0", "-", "0", "0">>,
      <<"0", "1", ":", "3", "0", ":">> }

----------------------------------------------------------------------------
(* What a call returns.                                                    *)

EmptyMap == [j \in {} |-> "None"]

\* What _write_script returns: nothing yet (""), or the tuple
\* (to_be_scheduled, script_path, restart_path).
NoScript ==
    [kind |-> "", to_be_scheduled |-> FALSE, script_path |-> "",
     restart_path |-> NoneS]

NoRet ==
    [raised |-> "", code |-> "", jobid |-> 0, status |-> EmptyMap,
     state |-> "", seconds |-> 0, script |-> NoScript, env |-> <<>>,
     lines |-> <<>>]

NoStep ==
    [nodes |-> 0, procs |-> Absent, cores_per_task |-> Absent,
     gpus |-> Absent, walltime |-> <<>>]

NoReply ==
    [present |-> FALSE, errnum |-> Absent, state |-> AbsentS, jobid |-> 0]

NoSched == [to_be_scheduled |-> FALSE, cmd |-> "", restart |-> NoneS]

NoJoblist == [type |-> "NoneType", list |-> <<>>, int |-> 0, str |-> ""]

NoJobspec ==
    [nnodes |-> 0, ntasks |-> 0, ncores |-> 0, gpus_key |-> "",
     gpus |-> Absent, cores_per_task |-> Absent, tasks_per_node |-> 0,
     walltime |-> 0, cwd |-> "", cmdline |-> <<>>]

\* One external call: the constructor flux.Flux(), h.rpc_send(topic, ...)
\* with the identifiers it carries, or kvs.get(h, path + key) where the path
\* is the one of the job in ids.
Call(fn, topic, ids, key) ==
    [fn |-> fn, topic |-> topic, ids |-> ids, key |-> key]

\* Connect without the test of self.h: a new handle at every call.
ConnectAlways(h0) == <<Call("Flux", "", <<>>, "")>>

\* "if self.h is None: self.h = self.flux.Flux()": the calls this issues.
Connect(h0) == IF h0 = "None" THEN <<Call("Flux", "", <<>>, "")>> ELSE <<>>

----------------------------------------------------------------------------
(* submit.                                                                 *)

ScriptPath == "step.flux.sh"
Cwd == "workspace"

\* step.run as submit reads it.
Steps ==
    [nodes : 0 .. MaxNodes,
     procs : {Absent} \cup {IntV(n) : n \in 0 .. MaxProcs},
     cores_per_task :
         {Absent, NoneV} \cup {IntV(n) : n \in 0 .. MaxCoresPerTask},
     gpus : {Absent, NoneV, IntV(0), IntV(1)},
     walltime : Walltimes]

\* What h.rpc_send("job.submit", ...) answers: None, or a dictionary with an
\* optional "errnum", an optional "state" and the "jobid".
Replies ==
    {NoReply} \cup
    [present : {TRUE},
     errnum : {Absent, NoneV, IntV(0), IntV(1)},
     state : {AbsentS, StrV("submitted"), StrV("Submitted"), StrV("failed")},
     jobid : {1, 2}]

\* SpectrumFluxScriptAdapter.submit up to the job request: the jobspec with
\* its cmdline, or the exception raised while it is built.
SpectrumJobspec(run) ==
    LET wt == _convert_walltime_to_seconds(run.walltime)
        cores_per_task == DictGet(run.cores_per_task, IntV(1))
    IN  IF wt.raised # "" THEN [raised |-> wt.raised, jobspec |-> NoJobspec]
        ELSE IF run.procs.kind = "absent"
        THEN [raised |-> "KeyError", jobspec |-> NoJobspec]
        ELSE IF cores_per_task.kind = "none"
        THEN [raised |-> "TypeError", jobspec |-> NoJobspec]
        ELSE IF run.cores_per_task.kind = "absent"
        THEN [raised |-> "KeyError", jobspec |-> NoJobspec]
        ELSE [raised |-> "",
              jobspec |->
                [nnodes |-> run.nodes,
                 ntasks |-> run.nodes,
                 ncores |-> cores_per_task.val * run.procs.val,
                 gpus_key |-> "gpus",
                 gpus |-> DictGet(run.gpus, IntV(0)),
                 cores_per_task |-> run.cores_per_task,
                 tasks_per_node |-> 1,
                 walltime |-> wt.seconds,
                 cwd |-> Cwd,
                 cmdline |-> IF run.nodes > 1
                             THEN <<"flux", "broker", ScriptPath>>
                             ELSE <<ScriptPath>>]]

\* FluxScriptAdapter.submit up to the job request.
FluxJobspec(run) ==
    LET wt == _convert_walltime_to_seconds(run.walltime)
        nodes == run.nodes
        processors == DictGet(run.procs, IntV(0))
        cpt0 == DictGet(run.cores_per_task, IntV(1))
        cores_per_task == IF ~Truthy(cpt0) THEN IntV(1) ELSE cpt0
        gpus0 == DictGet(run.gpus, IntV(0))
        ngpus == IF ~Truthy(gpus0) THEN IntV(0) ELSE gpus0
        ncores == cores_per_task.val * nodes
    IN  IF wt.raised # "" THEN [raised |-> wt.raised, jobspec |-> NoJobspec]
        ELSE IF processors.val > 0 /\ processors.val # ncores
        THEN [raised |-> "ValueError", jobspec |-> NoJobspec]
        ELSE IF ncores <= 0
        THEN [raised |-> "ValueError", jobspec |-> NoJobspec]
        ELSE [raised |-> "",
              jobspec |->
                [nnodes |-> run.nodes,
                 ntasks |-> nodes,
                 ncores |-> ncores,
                 gpus_key |-> "ngpus",
                 gpus |-> ngpus,
                 cores_per_task |-> cores_per_task,
                 tasks_per_node |-> 1,
                 walltime |-> wt.seconds,
                 cwd |-> Cwd,
                 cmdline |-> <<"flux", "broker", ScriptPath>>]]

Jobspec(v, run) ==
    IF v = "spectrum" THEN SpectrumJobspec(run) ELSE FluxJobspec(run)

\* SubmitReturn without the test for a missing reply: resp.get on None raises.
SubmitReturnNoneUnchecked(resp) ==
    IF ~resp.present
    THEN [NoRet EXCEPT !.raised = "AttributeError"]
    ELSE IF DictGet(resp.errnum, NoneV).kind # "none"
    THEN [NoRet EXCEPT !.code = "ERROR", !.jobid = -1]
    ELSE IF DictGet(resp.state, NoneS) # StrV("submitted")
    THEN [NoRet EXCEPT !.code = "ERROR", !.jobid = -1]
    ELSE [NoRet EXCEPT !.code = "OK", !.jobid = resp.jobid]

\* SubmitReturn testing the truth value of "errnum" instead of "is not None".
SubmitReturnTruthyErrnum(resp) ==
    IF ~resp.present
    THEN [NoRet EXCEPT !.code = "ERROR", !.jobid = -1]
    ELSE IF Truthy(resp.errnum)
    THEN [NoRet EXCEPT !.code = "ERROR", !.jobid = -1]
    ELSE IF DictGet(resp.state, NoneS) # StrV("submitted")
    THEN [NoRet EXCEPT !.code = "ERROR", !.jobid = -1]
    ELSE [NoRet EXCEPT !.code = "OK", !.jobid = resp.jobid]

\* The end of submit in both classes: what it returns for the reply resp.
SubmitReturn(resp) ==
    IF ~resp.present
    THEN [NoRet EXCEPT !.code = "ERROR", !.jobid = -1]
    ELSE IF DictGet(resp.errnum, NoneV).kind # "none"
    THEN [NoRet EXCEPT !.code = "ERROR", !.jobid = -1]
    ELSE IF DictGet(resp.state, NoneS) # StrV("submitted")
    THEN [NoRet EXCEPT !.code = "ERROR", !.jobid = -1]
    ELSE [NoRet EXCEPT !.code = "OK", !.jobid = resp.jobid]

----------------------------------------------------------------------------
(* check_jobs.                                                             *)

\* The job lists a batch is made of: each identifier at most once.
JobLists ==
    UNION {{l \in [1 .. n -> JobIds] :
               \A i, j \in 1 .. n : l[i] = l[j] => i = j} : n \in 0 .. MaxJobs}

ListArg(l) == [type |-> "list", list |-> l, int |-> 0, str |-> ""]
IntArg(n) == [type |-> "int", list |-> <<>>, int |-> n, str |-> ""]
StrArg(x) == [type |-> "str", list |-> <<>>, int |-> 0, str |-> x]

\* What a caller may hand to check_jobs: a list, a bare integer, a string
\* or None.
JoblistArgs ==
    {ListArg(l) : l \in JobLists} \cup {IntArg(n) : n \in JobIds}
    \cup {StrArg(""), StrArg("x"), NoJoblist}

\* The identifiers an argument names.
RequestedIds(arg) ==
    IF arg.type = "list" THEN {arg.list[i] : i \in 1 .. Len(arg.list)}
    ELSE IF arg.type = "int" THEN {arg.int}
    ELSE {}

\* PyTruth for "if joblist is None": only None fails.
PyTruthNotNone(arg) == arg.type # "NoneType"

\* PyTruth with the "if not joblist" test left out: every argument passes.
PyTruthAlways(arg) == TRUE

\* Python's truth value of the argument, as "if not joblist" takes it.
PyTruth(arg) ==
    CASE arg.type = "list" -> arg.list # <<>>
      [] arg.type = "int" -> arg.int # 0
      [] arg.type = "str" -> arg.str # ""
      [] OTHER -> FALSE

\* The exceptions kvs.get raises: an I/O fault, or the EnvironmentError of
\* a path that is not in the store.
Faults == {"IOError", "EnvironmentError"}

\* The wait statuses found in <path>.exit_status["max"].
ExitStatuses == {0, 1, 9, 127, 137, 256}

\* The states found in <path>.state.
KvsStates == {"running", "submitted", "complete", "Running"}

NoFault(st, mx) ==
    [state_raised |-> "", state |-> st, exit_raised |-> "", max |-> mx]

\* What the store holds for one job: reading <path>.state raises or gives a
\* state, and for a complete job reading <path>.exit_status raises or gives
\* the record with "max".
Outcomes ==
    {[NoFault("", 0) EXCEPT !.state_raised = e] : e \in Faults}
    \cup {NoFault(st, 0) : st \in KvsStates \ {"complete"}}
    \cup {[NoFault("complete", 0) EXCEPT !.exit_raised = e] : e \in Faults}
    \cup {NoFault("complete", mx) : mx \in ExitStatuses}

\* WIFSIGNALED taking every nonzero status for a signal.
WIFSIGNALEDNonzero(status) == status # 0

\* os.WIFSIGNALED(status), the C library's macro:
\* ((signed char) ((status & 0x7f) + 1) >> 1) > 0.
WIFSIGNALED(status) ==
    LET t == (status % 128) + 1
        schar == IF t >= 128 THEN t - 256 ELSE t
    IN  (schar \div 2) > 0

\* Reclassify without the signal test: every nonzero status is a failure.
ReclassifyNoSignal(rcode) == IF rcode # 0 THEN "failed" ELSE "complete"

\* The reclassification of a "complete" job by its maximum exit status.
Reclassify(rcode) ==
    IF rcode # 0
    THEN IF WIFSIGNALED(rcode) THEN "killed" ELSE "failed"
    ELSE "complete"

\* The handlers in the other order: "except IOError" never gets a fault.
CaughtAsIOErrorNever(e, py3) == FALSE

\* Whether "except IOError" catches exception e.  Python 2 has IOError as a
\* subclass of EnvironmentError; Python 3 has both names denote OSError, so
\* the first handler catches every exception of the family.
CaughtAsIOError(e, py3) == e = "IOError" \/ py3

\* The loop over the job list from position i on, with the status mapping
\* and the calls made so far.
RECURSIVE PollFrom(_, _, _, _, _, _, _)
PollFrom(v, py3, jl, w, i, status, done) ==
    IF i > Len(jl)
    THEN [code |-> IF DOMAIN status = {} THEN "NOJOBS" ELSE "OK",
          status |-> status, calls |-> done]
    ELSE
    LET jobid == jl[i]
        o == w[jobid]
        c1 == Append(done, Call("kvs.get", "", <<jobid>>, ".state"))
        c2 == Append(c1, Call("kvs.get", "", <<jobid>>, ".exit_status"))
        readExit == o.state_raised = "" /\ o.state = "complete"
        e == IF o.state_raised # "" THEN o.state_raised
             ELSE IF readExit THEN o.exit_raised ELSE ""
        cs == IF readExit THEN c2 ELSE c1
        fs == IF readExit THEN Reclassify(o.max) ELSE o.state
    IN  IF e = ""
        THEN PollFrom(v, py3, jl, w, i + 1,
                      [status EXCEPT ![jobid] = _state(v, fs)], cs)
        ELSE IF CaughtAsIOError(e, py3)
        THEN [code |-> "ERROR", status |-> status, calls |-> cs]
        ELSE PollFrom(v, py3, jl, w, i + 1,
                      [status EXCEPT ![jobid] = _state(v, "unknown")], cs)

\* KvspathCalls resolving one identifier per remote call.
KvspathCallsPerJob(jl) ==
    [i \in 1 .. Len(jl) |-> Call("rpc_send", "job.kvspath", <<jl[i]>>, "")]

\* The remote calls that resolve the identifiers of jl to their store paths.
KvspathCalls(jl) == <<Call("rpc_send", "job.kvspath", jl, "")>>

\* check_jobs from the connection on, for the list jl.
Poll(v, py3, h0, jl, w) ==
    LET ids == {jl[i] : i \in 1 .. Len(jl)}
        r == PollFrom(v, py3, jl, w, 1, [j \in ids |-> "None"],
                      Connect(h0) \o KvspathCalls(jl))
    IN  [h |-> "Flux", code |-> r.code, status |-> r.status,
         calls |-> r.calls]

\* check_jobs of both classes.
check_jobs(v, py3, h0, arg, w) ==
    IF ~PyTruth(arg)
    THEN [h |-> h0, code |-> "OK", status |-> EmptyMap, calls |-> <<>>]
    ELSE IF arg.type # "list"
    THEN IF arg.type = "int"
         THEN Poll(v, py3, h0, <<arg.int>>, w)
         ELSE [h |-> h0, code |-> "ERROR", status |-> EmptyMap,
               calls |-> <<>>]
    ELSE Poll(v, py3, h0, arg.list, w)

----------------------------------------------------------------------------
(* get_environment.  A variable name is a sequence of characters.          *)

\* EnvFilterMatches with re.search: "SSH_" anywhere in the name.
EnvFilterSearches(key) ==
    \E i \in 1 .. Len(key) - 3 :
        SubSeq(key, i, i + 3) = <<"S", "S", "H", "_">>

\* env_filter.match(key) for env_filter = re.compile(r"^SSH_"): the name
\* starts with "SSH_".
EnvFilterMatches(key) ==
    Len(key) >= 4 /\ SubSeq(key, 1, 4) = <<"S", "S", "H", "_">>

HOSTNAME == <<"H", "O", "S", "T", "N", "A", "M", "E">>
ENVIRONMENT == <<"E", "N", "V", "I", "R", "O", "N", "M", "E", "N", "T">>
MPIRUN_RSH_LAUNCH ==
    <<"M", "P", "I", "R", "U", "N", "_", "R", "S">> \o
    <<"H", "_", "L", "A", "U", "N", "C", "H">>

\* get_environment(): the variables whose name the filter does not match,
\* without HOSTNAME and ENVIRONMENT, and with MPIRUN_RSH_LAUNCH set to "1".
get_environment(env) ==
    LET kept == {k \in DOMAIN env : ~EnvFilterMatches(k)}
                \ {HOSTNAME, ENVIRONMENT}
    IN  [k \in kept \cup {MPIRUN_RSH_LAUNCH} |->
            IF k = MPIRUN_RSH_LAUNCH THEN "1" ELSE env[k]]

PATH == <<"P", "A", "T", "H">>

\* The names of the variables a process environment may hold: "SSH_A",
\* "SSH_", "SSH", "XSSH_", "ssh_a", HOSTNAME, ENVIRONMENT,
\* MPIRUN_RSH_LAUNCH and PATH.
EnvNames ==
    { <<"S", "S", "H", "_", "A">>,
      <<"S", "S", "H", "_">>,
      <<"S", "S", "H">>,
      <<"X", "S", "S", "H", "_">>,
      <<"s", "s", "h", "_", "a">>,
      HOSTNAME, ENVIRONMENT, MPIRUN_RSH_LAUNCH, PATH }

\* The process environment with the variables present, where
\* MPIRUN_RSH_LAUNCH is launch and PATH is path if present.
Environment(present, launch, path) ==
    [k \in present |->
        IF k = MPIRUN_RSH_LAUNCH THEN launch
        ELSE IF k = PATH THEN path
        ELSE "x"]

----------------------------------------------------------------------------
(* get_header and _write_script.                                           *)

\* self._exec, the interpreter line that the base class sets.
_exec == "#!/bin/bash"

\* The name of the restart script: "{}.restart.{}".format(step.name,
\* self._extension).
RestartPath == "step.restart.flux.sh"

\* The orders in which the two keys of self._header may be iterated.
HeaderOrders == {<<"nodes", "walltime">>, <<"walltime", "nodes">>}

\* self._header[key].format(**batch_header)
HeaderLine(v, key, nodes, seconds) ==
    IF v = "spectrum"
    THEN IF key = "nodes" THEN "#SBATCH -N " \o nodes
         ELSE "#SBATCH -t " \o seconds
    ELSE IF key = "nodes" THEN "#INFO (nodes) " \o nodes
         ELSE "#INFO (walltime) " \o seconds

\* HostLines without the test of the node count: always node discovery.
HostLinesAlwaysDiscover(nodes) ==
    <<"HOSTF_SINGLE=$(mktemp /tmp/hostls-XXXXX)",
      "HOSTF=$(mktemp /tmp/hostl-XXXXX)",
      "instance-nodes > $HOSTF_SINGLE",
      "sed -e \"s/$/:44/\" $HOSTF_SINGLE > $HOSTF ",
      "ulimit -s 10240">>

\* The lines that SpectrumFluxScriptAdapter.get_header appends after the
\* header fields.
HostLines(nodes) ==
    <<"HOSTF_SINGLE=$(mktemp /tmp/hostls-XXXXX)",
      "HOSTF=$(mktemp /tmp/hostl-XXXXX)",
      IF nodes > 1 THEN "instance-nodes > $HOSTF_SINGLE"
      ELSE "echo localhost > $HOSTF_SINGLE",
      "sed -e \"s/$/:44/\" $HOSTF_SINGLE > $HOSTF ",
      "ulimit -s 10240">>

\* get_header of both classes: the lines of the header, or the exception of
\* the walltime conversion.  A falsy run["nodes"] leaves the "nodes" batch
\* parameter at the "1" that __init__ sets.
get_header(v, run, order) ==
    LET wt == _convert_walltime_to_seconds(run.walltime)
        nodes == IF run.nodes # 0 THEN ToString(run.nodes) ELSE "1"
    IN  IF wt.raised # "" THEN [raised |-> wt.raised, lines |-> <<>>]
        ELSE [raised |-> "",
              lines |->
                  <<_exec>>
                  \o [i \in 1 .. Len(order) |->
                         HeaderLine(v, order[i], nodes, ToString(wt.seconds))]
                  \o IF v = "spectrum" THEN HostLines(run.nodes) ELSE <<>>]

\* self._batch after __init__, for the keys that get_header assigns in its
\* batch_header: "nodes" is the "1" of kwargs.pop("nodes", "1").
InitBatch ==
    [nodes |-> StrV("1"), walltime |-> AbsentS, job_name |-> AbsentS,
     comment |-> AbsentS]

\* RunCopied for "run = step.run".
RunAliased == FALSE

\* "run = dict(step.run)" and "batch_header = dict(self._batch)": whether
\* the name denotes a new dictionary and not the original one.
RunCopied == TRUE
BatchCopied == TRUE

\* What one call of get_header leaves behind: whether step.run still has
\* "nodes" after run.pop("nodes"), and self._batch after the assignments to
\* batch_header.  Nothing is assigned when the walltime conversion raises.
HeaderEffect(run, bt) ==
    LET wt == _convert_walltime_to_seconds(run.walltime)
        popped == run.nodes # 0
        assigned ==
            [nodes |-> IF popped THEN StrV(ToString(run.nodes)) ELSE bt.nodes,
             walltime |-> StrV(ToString(wt.seconds)),
             job_name |-> StrV("step"),
             comment |-> StrV("a step")]
    IN  IF wt.raised # ""
        THEN [raised |-> wt.raised, has_nodes |-> TRUE, batch |-> bt]
        ELSE [raised |-> "",
              has_nodes |-> RunCopied \/ ~popped,
              batch |-> IF BatchCopied THEN bt ELSE assigned]

\* WriteOne without the blank line between the prefix and the command.
WriteOneNoBlank(v, run, order, to_be_scheduled, path, cmd) ==
    LET hd == IF to_be_scheduled THEN get_header(v, run, order)
              ELSE [raised |-> "", lines |-> <<_exec>>]
    IN  IF hd.raised # ""
        THEN [raised |-> hd.raised, file |-> [path |-> path, lines |-> <<>>]]
        ELSE [raised |-> "",
              file |-> [path |-> path, lines |-> hd.lines \o <<cmd>>]]

\* One "with open(path, "w") as script" block: the file with the lines
\* written to it, and the exception that ended the block if any.
WriteOne(v, run, order, to_be_scheduled, path, cmd) ==
    LET hd == IF to_be_scheduled THEN get_header(v, run, order)
              ELSE [raised |-> "", lines |-> <<_exec>>]
    IN  IF hd.raised # ""
        THEN [raised |-> hd.raised, file |-> [path |-> path, lines |-> <<>>]]
        ELSE [raised |-> "",
              file |-> [path |-> path, lines |-> hd.lines \o <<"", cmd>>]]

\* "if restart:" holds for a restart command that is neither None nor empty.
HasRestart(sc) == sc.restart.kind = "str" /\ sc.restart.val # ""

\* "return to_be_scheduled, script_path, restart_path" at the end of
\* SpectrumFluxScriptAdapter._write_script.
ScriptReturn(sc) ==
    [kind |-> "tuple",
     to_be_scheduled |-> sc.to_be_scheduled,
     script_path |-> ScriptPath,
     restart_path |-> IF HasRestart(sc) THEN StrV(RestartPath) ELSE NoneS]

\* What FluxScriptAdapter._write_script returns: whether the step is to be
\* scheduled, the path of the primary script and the path of the restart
\* script or None.
FluxScriptReturn(sc) == ScriptReturn(sc)

\* _write_script: the files opened and what is returned or raised.
_write_script(v, run, order, sc) ==
    LET first == WriteOne(v, run, order, sc.to_be_scheduled, ScriptPath,
                          sc.cmd)
        second == WriteOne(v, run, order, sc.to_be_scheduled, RestartPath,
                           sc.restart.val)
        returned == IF v = "spectrum" THEN ScriptReturn(sc)
                    ELSE FluxScriptReturn(sc)
    IN  IF first.raised # ""
        THEN [raised |-> first.raised, files |-> <<first.file>>,
              returned |-> NoScript]
        ELSE IF HasRestart(sc) /\ second.raised # ""
        THEN [raised |-> second.raised,
              files |-> <<first.file, second.file>>, returned |-> NoScript]
        ELSE [raised |-> "",
              files |-> IF HasRestart(sc) THEN <<first.file, second.file>>
                        ELSE <<first.file>>,
              returned |-> returned]

\* What _write_script leaves behind: get_header runs once for each script
\* of a step that is to be scheduled.
WriteScriptEffect(run, sc, bt) ==
    LET first == HeaderEffect(run, bt)
        second == HeaderEffect(run, first.batch)
    IN  IF ~sc.to_be_scheduled THEN [has_nodes |-> TRUE, batch |-> bt]
        ELSE IF first.raised # "" \/ ~HasRestart(sc)
        THEN [has_nodes |-> first.has_nodes, batch |-> first.batch]
        ELSE [has_nodes |-> first.has_nodes /\ second.has_nodes,
              batch |-> second.batch]

\* step.run as get_header reads it: the node count and the walltime.
ScriptSteps ==
    {[NoStep EXCEPT !.nodes = n, !.walltime = w] :
        n \in 0 .. MaxNodes, w \in Walltimes}

\* What get_scheduler_command(step) returns: whether the step is to be
\* scheduled, the command, and the restart command (None, empty or given).
SchedulerCommands ==
    [to_be_scheduled : BOOLEAN,
     cmd : {"run.sh"},
     restart : {NoneS, StrV(""), StrV("resume.sh")}]

----------------------------------------------------------------------------
(* cancel_jobs.                                                            *)

\* term_status without FINISHED.
TermStatusNoFinished == {"CANCELLED", "FAILED"}

\* term_status
TermStatus == {"FINISHED", "CANCELLED", "FAILED"}

\* The exit codes of the control tool: 0 when it accepts, 1 when it rejects.
ToolCodes == {0, 1}

\* retcode holds the integer that sp.call returned, or the JobStatusCode
\* member that check_jobs returned.
IntRc(n) == [enum |-> "", int |-> n]

\* EnumRc that keeps the integer value of the member: OK is 0.
EnumRcAsInt(name) == IntRc(IF name = "OK" THEN 0 ELSE 1)

EnumRc(name) == [enum |-> name, int |-> 0]

\* Whether a JobStatusCode member compares equal to an integer: the members
\* are plain Enum members, which equal no integer.
JobStatusCodeEqualsInt(name, n) == FALSE

\* RetcodeNonzero comparing against a value that no retcode equals.
RetcodeNonzeroAlways(rc) == TRUE

\* "retcode != 0"
RetcodeNonzero(rc) ==
    IF rc.enum # "" THEN ~JobStatusCodeEqualsInt(rc.enum, 0) ELSE rc.int # 0

\* NextCancelCode that records no failure.
NextCancelCodeNever(cancelcode, failed) == cancelcode

\* NextCancelCode that takes the code of the last job.
NextCancelCodeLast(cancelcode, failed) == IF failed THEN "ERROR" ELSE "OK"

\* "if retcode != 0: cancelcode = CancelCode.ERROR" at the end of the loop
\* body.
NextCancelCode(cancelcode, failed) == IF failed THEN "ERROR" ELSE cancelcode

\* The loop body for one job: cancel, then kill if the cancel was rejected,
\* then check_jobs([job]) if the kill was rejected too.
CancelOne(v, py3, hcur, job, t, w) ==
    LET c1 == <<Call("sp.call", "cancel", <<job>>, "")>>
        rc1 == IntRc(t.cancel)
        kill == RetcodeNonzero(rc1)
        c2 == IF kill THEN Append(c1, Call("sp.call", "kill", <<job>>, ""))
              ELSE c1
        rc2 == IF kill THEN IntRc(t.kill) ELSE rc1
        repoll == RetcodeNonzero(rc2)
        r == check_jobs(v, py3, hcur, ListArg(<<job>>), w)
        rc3 == IF ~repoll THEN rc2
               ELSE IF /\ DOMAIN r.status # {}
                       /\ job \in DOMAIN r.status
                       /\ r.status[job] \in TermStatus
               THEN IntRc(0)
               ELSE EnumRc(r.code)
    IN  [h |-> IF repoll THEN r.h ELSE hcur,
         failed |-> RetcodeNonzero(rc3),
         calls |-> IF repoll THEN c2 \o r.calls ELSE c2]

\* The loop over the job list from position i on.
RECURSIVE CancelFrom(_, _, _, _, _, _, _, _, _)
CancelFrom(v, py3, hcur, jl, tl, w, i, cancelcode, done) ==
    IF i > Len(jl)
    THEN [h |-> hcur, code |-> cancelcode, calls |-> done]
    ELSE LET one == CancelOne(v, py3, hcur, jl[i], tl[jl[i]], w)
         IN  CancelFrom(v, py3, one.h, jl, tl, w, i + 1,
                        NextCancelCode(cancelcode, one.failed),
                        done \o one.calls)

\* cancel_jobs of both classes.
cancel_jobs(v, py3, h0, jl, tl, w) ==
    IF jl = <<>>
    THEN [h |-> h0, code |-> "OK", calls |-> <<>>]
    ELSE CancelFrom(v, py3, h0, jl, tl, w, 1, "OK", <<>>)

\* What the store holds for a job that cancel_jobs polls again.
RepollOutcomes ==
    {[NoFault("", 0) EXCEPT !.state_raised = e] : e \in Faults}
    \cup {NoFault("running", 0), NoFault("complete", 0),
          NoFault("complete", 9), NoFault("complete", 256)}

\* What happens to one job of the batch: the cancel is accepted; or it is
\* rejected and the kill is accepted; or both are rejected and the store is
\* read.  What is not consulted is left at a fixed value.
CancelScenarios ==
    {[cancel |-> 0, kill |-> 0, store |-> NoFault("running", 0)],
     [cancel |-> 1, kill |-> 0, store |-> NoFault("running", 0)]}
    \cup {[cancel |-> 1, kill |-> 1, store |-> o] : o \in RepollOutcomes}

----------------------------------------------------------------------------
(* The caller and the instance.                                            *)

Init ==
    /\ variant \in {"spectrum", "flux"}
    /\ python3 \in BOOLEAN
    /\ h = "None"
    /\ pc = "idle"
    /\ op = "__init__"
    /\ h_before = "None"
    /\ flux_state = ""
    /\ step = NoStep
    /\ reply = NoReply
    /\ joblist = NoJoblist
    /\ world = <<>>
    /\ tool = <<>>
    /\ walltime = <<>>
    /\ sched = NoSched
    /\ header = <<>>
    /\ files = <<>>
    /\ environ = <<>>
    /\ batch = InitBatch
    /\ has_nodes = TRUE
    /\ sent = <<>>
    /\ calls = <<>>
    /\ ret = NoRet

\* The caller calls self._state(s).
State ==
    /\ pc = "idle"
    /\ \E s \in NativeStrings :
        /\ flux_state' = s
        /\ ret' = [NoRet EXCEPT !.state = _state(variant, s)]
    /\ pc' = "returned"
    /\ op' = "_state"
    /\ h_before' = h
    /\ step' = NoStep
    /\ reply' = NoReply
    /\ joblist' = NoJoblist
    /\ world' = <<>>
    /\ tool' = <<>>
    /\ walltime' = <<>>
    /\ sched' = NoSched
    /\ header' = <<>>
    /\ files' = <<>>
    /\ environ' = <<>>
    /\ has_nodes' = TRUE
    /\ sent' = <<>>
    /\ calls' = <<>>
    /\ UNCHANGED <<variant, python3, h, batch>>

\* The caller calls self.submit(step, path, cwd).  The method raises while it
\* builds the job request, or connects if it has no handle yet, sends the
\* request and returns what the reply tells.
Submit ==
    /\ pc = "idle"
    /\ \E run \in Steps :
        LET built == Jobspec(variant, run)
        IN  /\ step' = run
            /\ IF built.raised # ""
               THEN /\ ret' = [NoRet EXCEPT !.raised = built.raised]
                    /\ reply' = NoReply
                    /\ sent' = <<>>
                    /\ calls' = <<>>
                    /\ h' = h
               ELSE \E resp \in Replies :
                    /\ reply' = resp
                    /\ sent' = <<built.jobspec>>
                    /\ calls' = Connect(h)
                                \o <<Call("rpc_send", "job.submit", <<>>, "")>>
                    /\ h' = "Flux"
                    /\ ret' = SubmitReturn(resp)
    /\ pc' = "returned"
    /\ op' = "submit"
    /\ h_before' = h
    /\ flux_state' = ""
    /\ joblist' = NoJoblist
    /\ world' = <<>>
    /\ tool' = <<>>
    /\ walltime' = <<>>
    /\ sched' = NoSched
    /\ header' = <<>>
    /\ files' = <<>>
    /\ environ' = <<>>
    /\ has_nodes' = TRUE
    /\ UNCHANGED <<variant, python3, batch>>

\* The caller calls self.check_jobs(joblist) while the store holds w.
CheckJobs ==
    /\ pc = "idle"
    /\ \E arg \in JoblistArgs :
       \E w \in [RequestedIds(arg) -> Outcomes] :
        LET r == check_jobs(variant, python3, h, arg, w)
        IN  /\ joblist' = arg
            /\ world' = w
            /\ h' = r.h
            /\ calls' = r.calls
            /\ ret' = [NoRet EXCEPT !.code = r.code, !.status = r.status]
    /\ pc' = "returned"
    /\ op' = "check_jobs"
    /\ tool' = <<>>
    /\ walltime' = <<>>
    /\ sched' = NoSched
    /\ header' = <<>>
    /\ files' = <<>>
    /\ environ' = <<>>
    /\ has_nodes' = TRUE
    /\ h_before' = h
    /\ flux_state' = ""
    /\ step' = NoStep
    /\ reply' = NoReply
    /\ sent' = <<>>
    /\ UNCHANGED <<variant, python3, batch>>

\* The caller calls self._convert_walltime_to_seconds(walltime).
ConvertWalltime ==
    /\ pc = "idle"
    /\ \E w \in WalltimeArgs :
        LET r == _convert_walltime_to_seconds(w)
        IN  /\ walltime' = w
            /\ sched' = NoSched
            /\ header' = <<>>
            /\ files' = <<>>
            /\ environ' = <<>>
            /\ has_nodes' = TRUE
            /\ ret' = [NoRet EXCEPT !.raised = r.raised,
                                    !.seconds = r.seconds]
    /\ pc' = "returned"
    /\ op' = "_convert_walltime_to_seconds"
    /\ h_before' = h
    /\ flux_state' = ""
    /\ step' = NoStep
    /\ reply' = NoReply
    /\ joblist' = NoJoblist
    /\ world' = <<>>
    /\ tool' = <<>>
    /\ sent' = <<>>
    /\ calls' = <<>>
    /\ UNCHANGED <<variant, python3, h, batch>>

\* The caller calls self.get_header(step).
GetHeader ==
    /\ pc = "idle"
    /\ \E run \in ScriptSteps, order \in HeaderOrders :
        LET r == get_header(variant, run, order)
        IN  /\ step' = run
            /\ header' = order
            /\ has_nodes' = HeaderEffect(run, batch).has_nodes
            /\ batch' = HeaderEffect(run, batch).batch
            /\ ret' = [NoRet EXCEPT !.raised = r.raised, !.lines = r.lines]
    /\ pc' = "returned"
    /\ op' = "get_header"
    /\ h_before' = h
    /\ flux_state' = ""
    /\ reply' = NoReply
    /\ joblist' = NoJoblist
    /\ world' = <<>>
    /\ tool' = <<>>
    /\ walltime' = <<>>
    /\ sched' = NoSched
    /\ files' = <<>>
    /\ environ' = <<>>
    /\ sent' = <<>>
    /\ calls' = <<>>
    /\ UNCHANGED <<variant, python3, h>>

\* The caller calls self._write_script(ws_path, step).
WriteScript ==
    /\ pc = "idle"
    /\ \E run \in ScriptSteps, sc \in SchedulerCommands,
          order \in HeaderOrders :
        LET r == _write_script(variant, run, order, sc)
        IN  /\ step' = run
            /\ sched' = sc
            /\ header' = order
            /\ files' = r.files
            /\ environ' = <<>>
            /\ has_nodes' = WriteScriptEffect(run, sc, batch).has_nodes
            /\ batch' = WriteScriptEffect(run, sc, batch).batch
            /\ ret' = [NoRet EXCEPT !.raised = r.raised,
                                    !.script = r.returned]
    /\ pc' = "returned"
    /\ op' = "_write_script"
    /\ h_before' = h
    /\ flux_state' = ""
    /\ reply' = NoReply
    /\ joblist' = NoJoblist
    /\ world' = <<>>
    /\ tool' = <<>>
    /\ walltime' = <<>>
    /\ sent' = <<>>
    /\ calls' = <<>>
    /\ UNCHANGED <<variant, python3, h>>

\* The caller calls get_environment() in a process whose environment is e.
GetEnvironment ==
    /\ pc = "idle"
    /\ \E present \in SUBSET EnvNames, launch \in {"0", "1"},
          path \in {"/bin", "/usr/bin"} :
        LET e == Environment(present, launch, path)
        IN  /\ environ' = e
            /\ has_nodes' = TRUE
            /\ ret' = [NoRet EXCEPT !.env = get_environment(e)]
    /\ pc' = "returned"
    /\ op' = "get_environment"
    /\ h_before' = h
    /\ flux_state' = ""
    /\ step' = NoStep
    /\ reply' = NoReply
    /\ joblist' = NoJoblist
    /\ world' = <<>>
    /\ tool' = <<>>
    /\ walltime' = <<>>
    /\ sched' = NoSched
    /\ header' = <<>>
    /\ files' = <<>>
    /\ sent' = <<>>
    /\ calls' = <<>>
    /\ UNCHANGED <<variant, python3, h, batch>>

\* The caller calls self.cancel_jobs(joblist).
CancelJobs ==
    /\ pc = "idle"
    /\ \E jl \in JobLists :
       \E sc \in [{jl[i] : i \in 1 .. Len(jl)} -> CancelScenarios] :
        LET tl == [j \in DOMAIN sc |->
                      [cancel |-> sc[j].cancel, kill |-> sc[j].kill]]
            w == [j \in DOMAIN sc |-> sc[j].store]
            r == cancel_jobs(variant, python3, h, jl, tl, w)
        IN  /\ joblist' = ListArg(jl)
            /\ tool' = tl
            /\ walltime' = <<>>
            /\ sched' = NoSched
            /\ header' = <<>>
            /\ files' = <<>>
            /\ environ' = <<>>
            /\ has_nodes' = TRUE
            /\ world' = w
            /\ h' = r.h
            /\ calls' = r.calls
            /\ ret' = [NoRet EXCEPT !.code = r.code]
    /\ pc' = "returned"
    /\ op' = "cancel_jobs"
    /\ h_before' = h
    /\ flux_state' = ""
    /\ step' = NoStep
    /\ reply' = NoReply
    /\ sent' = <<>>
    /\ UNCHANGED <<variant, python3, batch>>

\* The caller is done with the returned value and is ready for the next call.
Return ==
    /\ pc = "returned"
    /\ pc' = "idle"
    /\ op' = "__init__"
    /\ h_before' = h
    /\ flux_state' = ""
    /\ step' = NoStep
    /\ reply' = NoReply
    /\ joblist' = NoJoblist
    /\ world' = <<>>
    /\ tool' = <<>>
    /\ walltime' = <<>>
    /\ sched' = NoSched
    /\ header' = <<>>
    /\ files' = <<>>
    /\ environ' = <<>>
    /\ has_nodes' = TRUE
    /\ sent' = <<>>
    /\ calls' = <<>>
    /\ ret' = NoRet
    /\ UNCHANGED <<variant, python3, h, batch>>

Next ==
    \/ State
    \/ Submit
    \/ CheckJobs
    \/ CancelJobs
    \/ ConvertWalltime
    \/ GetHeader
    \/ WriteScript
    \/ GetEnvironment
    \/ Return

Spec == Init /\ [][Next]_vars

----------------------------------------------------------------------------
(* Properties.                                                             *)

\* The translation table of the state translator, as documented.
StateTable ==
    [running |-> "RUNNING", pending |-> "PENDING", runrequest |-> "PENDING",
     allocated |-> "PENDING", starting |-> "PENDING",
     submitted |-> "WAITING", failed |-> "FAILED", cancelled |-> "CANCELLED",
     killed |-> "CANCELLED", complete |-> "FINISHED"]

\* C1: _state is total and deterministic in both classes: every native
\* string gives exactly one normalized state and never an exception, the
\* documented one for the ten markers of the vocabulary and UNKNOWN for
\* every other string ("unknown" and case variants included).
C1_StateTotal ==
    op = "_state" =>
        /\ ret.raised = ""
        /\ ret.state \in States
        /\ ret.state = IF flux_state \in DOMAIN StateTable
                       THEN StateTable[flux_state] ELSE "UNKNOWN"

C1_Witness ==
    /\ op = "_state"
    /\ variant = "spectrum"
    /\ flux_state = "starting"
    /\ ret.state = "PENDING"

\* The reply of the last submit is a success reply: present, without an error
\* code, and with the state "submitted".
ReplyAccepted ==
    /\ reply.present
    /\ reply.errnum.kind \in {"absent", "none"}
    /\ reply.state.kind = "str"
    /\ reply.state.val = "submitted"

\* C2: for every reply to job.submit, submit returns (OK, the reply's jobid)
\* exactly when the reply is present, has no error code and has the state
\* "submitted"; otherwise it returns (ERROR, -1) without raising.
C2_SubmitReply ==
    (op = "submit" /\ sent # <<>>) =>
        /\ ret.raised = ""
        /\ ReplyAccepted => (ret.code = "OK" /\ ret.jobid = reply.jobid)
        /\ ~ReplyAccepted => (ret.code = "ERROR" /\ ret.jobid = -1)

C2_Witness ==
    /\ op = "submit"
    /\ reply.present
    /\ reply.errnum = IntV(0)
    /\ reply.state = StrV("submitted")
    /\ ret.code = "ERROR"
    /\ ret.jobid = -1

\* C3: in every job request sent by submit, for a step of at least one node,
\* the core count is the request's cores-per-task times the step's node
\* count.
C3_CoreCount ==
    \A i \in 1 .. Len(sent) :
        step.nodes >= 1 =>
            sent[i].ncores = sent[i].cores_per_task.val * step.nodes

\* The cores-per-task of the last step, with the fallback of 1.
StepCoresPerTask ==
    IF Truthy(step.cores_per_task) THEN step.cores_per_task.val ELSE 1

\* The last step is misconfigured: its computed core count is not positive,
\* or its explicit process count is positive and differs from it.
StepMisconfigured ==
    \/ StepCoresPerTask * step.nodes <= 0
    \/ /\ step.procs.kind = "int"
       /\ step.procs.val > 0
       /\ step.procs.val # StepCoresPerTask * step.nodes

\* C4: a submit of a misconfigured step fails before any remote interaction:
\* it raises, creates no connection handle and sends no job.submit request.
C4_FailFast ==
    (op = "submit" /\ StepMisconfigured) =>
        /\ ret.raised # ""
        /\ h = h_before
        /\ calls = <<>>
        /\ sent = <<>>

\* The last call was a check_jobs that went on to poll the store.
Polled ==
    /\ op = "check_jobs"
    /\ PyTruth(joblist)
    /\ joblist.type \in {"list", "int"}

\* The list that check_jobs polls.
PolledList == IF joblist.type = "int" THEN <<joblist.int>> ELSE joblist.list

EmptyArg == joblist \in {ListArg(<<>>), StrArg(""), NoJoblist}

C6_IntPromoted ==
    (op = "check_jobs" /\ joblist.type = "int") =>
        LET r == check_jobs(variant, python3, h_before,
                            ListArg(<<joblist.int>>), world)
        IN  /\ ret.code = r.code
            /\ ret.status = r.status
            /\ calls = r.calls
            /\ h = r.h

\* The store holds job j as complete with the maximum exit status mx.
CompleteWith(j, mx) == world[j] = NoFault("complete", mx)

\* The exit statuses that denote a termination by signal: the low seven bits
\* hold a signal number (not 0, and not the 127 of a stopped process).
SignalStatuses == {mx \in ExitStatuses : mx % 128 \in 1 .. 126}

\* C7: a complete job is classified by its maximum exit status: zero gives
\* FINISHED, and a nonzero status that denotes a termination by signal (9,
\* or 9 with the core-dump bit, 137) gives CANCELLED, not FAILED.
C7_SignalCancelled ==
    Polled =>
        \A j \in DOMAIN ret.status :
            (ret.code = "OK" \/ ret.status[j] # "None") =>
                /\ CompleteWith(j, 0) => ret.status[j] = "FINISHED"
                /\ \A mx \in SignalStatuses :
                       CompleteWith(j, mx) => ret.status[j] = "CANCELLED"
                /\ CompleteWith(j, 9) => ret.status[j] = "CANCELLED"

C7_Witness ==
    /\ Polled
    /\ \E j \in DOMAIN ret.status :
           CompleteWith(j, 9) /\ ret.status[j] = "CANCELLED"

FaultOf(j) ==
    IF world[j].state_raised # "" THEN world[j].state_raised
    ELSE IF world[j].state = "complete" THEN world[j].exit_raised
    ELSE ""

\* The reads of job j raise an I/O fault: an IOError, which under Python 3
\* every exception of the OSError family is.
IOFault(j) == FaultOf(j) = "IOError" \/ (python3 /\ FaultOf(j) # "")

\* Position k of the polled list is the first whose reads raise an I/O
\* fault.
FirstIOFault(k) ==
    /\ k \in 1 .. Len(PolledList)
    /\ IOFault(PolledList[k])
    /\ \A i \in 1 .. k - 1 : ~IOFault(PolledList[i])

\* C9: an I/O fault at a job aborts the batch there: check_jobs returns ERROR
\* with an entry for every requested identifier, the jobs before the fault
\* keep the states computed for them, the faulting job and the later ones are
\* None, and no store read is issued for the later jobs.
C9_IOFaultAborts ==
    Polled =>
        \A k \in 1 .. Len(PolledList) :
            FirstIOFault(k) =>
                LET before == SubSeq(PolledList, 1, k - 1)
                    alone == check_jobs(variant, python3, h_before,
                                        ListArg(before), world)
                IN  /\ ret.code = "ERROR"
                    /\ DOMAIN ret.status = RequestedIds(joblist)
                    /\ \A i \in 1 .. k - 1 :
                           /\ ret.status[PolledList[i]] \in States
                           /\ ret.status[PolledList[i]]
                                  = alone.status[PolledList[i]]
                    /\ \A i \in k .. Len(PolledList) :
                           ret.status[PolledList[i]] = "None"
                    /\ \A i \in k + 1 .. Len(PolledList) :
                           \A c \in 1 .. Len(calls) :
                               calls[c].fn = "kvs.get" =>
                                   calls[c].ids # <<PolledList[i]>>

C9_Witness ==
    /\ Polled
    /\ Len(PolledList) = 2
    /\ FirstIOFault(1)
    /\ FaultOf(PolledList[1]) = "IOError"
    /\ ret.code = "ERROR"
    /\ ret.status[PolledList[2]] = "None"

\* C10: a job whose store path is absent is marked UNKNOWN, the remaining
\* jobs of the batch are still polled, and the call returns OK.
C10_AbsentIsUnknown ==
    (Polled /\ \A j \in RequestedIds(joblist) : FaultOf(j) # "IOError") =>
        /\ ret.code = "OK"
        /\ \A j \in RequestedIds(joblist) :
               /\ FaultOf(j) = "EnvironmentError" =>
                      ret.status[j] = "UNKNOWN"
               /\ \E c \in 1 .. Len(calls) :
                      calls[c] = Call("kvs.get", "", <<j>>, ".state")


\* The batch that cancel_jobs was called with.
Batch == joblist.list

\* The control tool rejects both the cancel and the kill of job j.
RejectedTwice(j) == tool[j].cancel # 0 /\ tool[j].kill # 0

\* The control tool accepts the cancel of job j, or its kill.
Accepted(j) == tool[j].cancel = 0 \/ tool[j].kill = 0

\* The normalized states of a job that has ended.
EndedStates == {"FINISHED", "CANCELLED", "FAILED"}

\* The normalized state that a poll of job j alone reports.
RepollReports(j) ==
    check_jobs(variant, python3, "Flux", ListArg(<<j>>), world).status[j]

\* C11: in cancel_jobs, a job whose cancel and kill are both rejected but
\* whose re-poll reports FINISHED, CANCELLED or FAILED does not by itself
\* make the result ERROR: when the tool accepts every other job of the
\* batch, the result is OK.
C11_EndedIsNoError ==
    op = "cancel_jobs" =>
        \A i \in 1 .. Len(Batch) :
            ( /\ RejectedTwice(Batch[i])
              /\ RepollReports(Batch[i]) \in EndedStates
              /\ \A k \in 1 .. Len(Batch) : k # i => Accepted(Batch[k]) )
            => ret.code = "OK"

\* C11's case: a job rejected twice whose re-poll reports FINISHED, in a
\* batch of two, and the result is OK.
C11_Witness ==
    /\ op = "cancel_jobs"
    /\ Len(Batch) = 2
    /\ RejectedTwice(Batch[1])
    /\ RepollReports(Batch[1]) = "FINISHED"
    /\ Accepted(Batch[2])
    /\ ret.code = "OK"


\* The graceful cancel of job j, and its forceful kill.
CancelCall(j) == Call("sp.call", "cancel", <<j>>, "")
KillCall(j) == Call("sp.call", "kill", <<j>>, "")

\* The positions of call c in the calls of this operation.
PositionsOf(c) == {n \in 1 .. Len(calls) : calls[n] = c}

\* Job j is rejected twice and its re-poll reports a state that is not an
\* ended one (RUNNING, UNKNOWN, or none because the read raised).
StillAlive(j) == RejectedTwice(j) /\ RepollReports(j) \notin EndedStates

\* C12: in cancel_jobs, a job whose cancel and kill are both rejected and
\* whose re-poll reports a non-terminal state makes the result ERROR, and
\* every later job of the batch still gets its own cancel, issued after the
\* kill of the failed job.
C12_FailureContinues ==
    op = "cancel_jobs" =>
        \A i \in 1 .. Len(Batch) :
            StillAlive(Batch[i]) =>
                /\ ret.code = "ERROR"
                /\ \A k \in i + 1 .. Len(Batch) :
                       \E n \in PositionsOf(CancelCall(Batch[k])) :
                       \E m \in PositionsOf(KillCall(Batch[i])) : m < n

\* C12's case: the first job of two is rejected twice and still RUNNING; the
\* second job's cancel is issued and the result is ERROR.
C12_Witness ==
    /\ op = "cancel_jobs"
    /\ Len(Batch) = 2
    /\ StillAlive(Batch[1])
    /\ RepollReports(Batch[1]) = "RUNNING"
    /\ PositionsOf(CancelCall(Batch[2])) # {}
    /\ ret.code = "ERROR"


\* Job j is confirmed terminated: its cancel is accepted, or its kill, or
\* its re-poll reports an ended state.
Confirmed(j) == Accepted(j) \/ RepollReports(j) \in EndedStates

\* C13: cancel_jobs returns OK exactly when every job of the batch is
\* confirmed terminated, so the empty batch returns OK (without any call),
\* and a failure is not undone by the success of a later job.
C13_OkIffAllConfirmed ==
    op = "cancel_jobs" =>
        /\ ret.code \in {"OK", "ERROR"}
        /\ ret.code = "OK" <=> \A i \in 1 .. Len(Batch) : Confirmed(Batch[i])
        /\ Batch = <<>> => (ret.code = "OK" /\ calls = <<>>)

\* C13's case: the first job of two is not confirmed, the second one's
\* cancel is accepted, and the result stays ERROR.
C13_Witness ==
    /\ op = "cancel_jobs"
    /\ Len(Batch) = 2
    /\ ~Confirmed(Batch[1])
    /\ tool[Batch[2]].cancel = 0
    /\ ret.code = "ERROR"


\* C14 as claimed: the cmdline of a submitted job request wraps the script
\* in the sub-broker launch when the step has more than one node, and is the
\* script alone when it has one node, for both variants.
C14_CmdlineByNodes ==
    (op = "submit" /\ sent # <<>> /\ step.nodes >= 1) =>
        sent[1].cmdline = IF step.nodes > 1
                          THEN <<"flux", "broker", ScriptPath>>
                          ELSE <<ScriptPath>>


\* The well-formed walltime strings with their hours, minutes and seconds
\* added up by hand: "01:30:00" is 5400, "23:59:59" is 86399, "00:00:00" is
\* 0, "1:2:3" is 3723 and "0:0:7" is 7.
WellFormed ==
    { <<<<"0", "1", ":", "3", "0", ":", "0", "0">>, 5400>>,
      <<<<"2", "3", ":", "5", "9", ":", "5", "9">>, 86399>>,
      <<<<"0", "0", ":", "0", "0", ":", "0", "0">>, 0>>,
      <<<<"1", ":", "2", ":", "3">>, 3723>>,
      <<<<"0", ":", "0", ":", "7">>, 7>> }

\* The seconds that WellFormed gives for string w, as a set: empty when w is
\* malformed.
SecondsOf(w) == {p[2] : p \in {q \in WellFormed : q[1] = w}}

\* C15: the conversion of a well-formed HH:MM:SS string returns exactly
\* H*3600 + M*60 + S, and the conversion of a malformed string raises; a
\* submit with a malformed walltime raises before anything is sent, and a
\* submit that sends a request sends the converted seconds.
C15_WalltimeSeconds ==
    /\ op = "_convert_walltime_to_seconds" =>
           IF SecondsOf(walltime) = {}
           THEN ret.raised # ""
           ELSE ret.raised = "" /\ SecondsOf(walltime) = {ret.seconds}
    /\ op = "submit" =>
           /\ SecondsOf(step.walltime) = {} =>
                  (ret.raised # "" /\ sent = <<>> /\ calls = <<>>)
           /\ sent # <<>> => SecondsOf(step.walltime) = {sent[1].walltime}

\* C15's case: "01:30:00" has been converted to 5400.
C15_Witness ==
    /\ op = "_convert_walltime_to_seconds"
    /\ walltime = <<"0", "1", ":", "3", "0", ":", "0", "0">>
    /\ ret.raised = ""
    /\ ret.seconds = 5400


\* File f has line l.
HasLine(f, l) == \E i \in 1 .. Len(f.lines) : f.lines[i] = l

\* What a complete script has before its blank line and its command.
Prefix(f) == SubSeq(f.lines, 1, Len(f.lines) - 2)

\* The two ways of filling the host-list file.
Discovery == "instance-nodes > $HOSTF_SINGLE"
Fallback == "echo localhost > $HOSTF_SINGLE"

\* File f creates a host-list file.
HasHostList(f) == HasLine(f, "HOSTF=$(mktemp /tmp/hostl-XXXXX)")

\* _write_script has returned without raising.
Emitted == op = "_write_script" /\ ret.raised = ""

\* C16 as claimed: the scripts of a single-node step have neither resource
\* header nor host-discovery lines, and a script of a multi-node step that
\* has a host-list file fills it from node discovery, not from the
\* fallback.
C16_SingleNodeNoHeader ==
    Emitted =>
        \A n \in 1 .. Len(files) :
            /\ step.nodes = 1 => Prefix(files[n]) = <<_exec>>
            /\ (step.nodes > 1 /\ HasHostList(files[n])) =>
                   (HasLine(files[n], Discovery)
                    /\ ~HasLine(files[n], Fallback))

\* C16 amended: the scripts of a step that is not to be scheduled have only
\* the interpreter line before the command, whatever the node count; the
\* scripts of a step that is to be scheduled have the header, to which the
\* Spectrum variant adds a host-list file filled from node discovery when
\* the step has more than one node and from the fallback otherwise, and the
\* other variant adds nothing.
C16_HeaderWhenScheduled ==
    Emitted =>
        \A n \in 1 .. Len(files) :
            IF ~sched.to_be_scheduled
            THEN Prefix(files[n]) = <<_exec>>
            ELSE /\ Len(Prefix(files[n])) >= 3
                 /\ Prefix(files[n])[1] = _exec
                 /\ HasHostList(files[n]) <=> variant = "spectrum"
                 /\ HasLine(files[n], Discovery)
                        <=> (variant = "spectrum" /\ step.nodes > 1)
                 /\ HasLine(files[n], Fallback)
                        <=> (variant = "spectrum" /\ step.nodes <= 1)

\* C16's case: a single-node step that is to be scheduled has been written
\* by the Spectrum variant, with the header and the fallback line.
C16_Witness ==
    /\ Emitted
    /\ variant = "spectrum"
    /\ step.nodes = 1
    /\ sched.to_be_scheduled
    /\ Len(files) = 2
    /\ HasLine(files[1], "#SBATCH -N 1")
    /\ HasLine(files[1], "#SBATCH -t 5400")
    /\ HasLine(files[2], Fallback)


\* The last call was one of the three operations on jobs.
JobOperation == op \in {"submit", "check_jobs", "cancel_jobs"}

\* The walltime of the last step is malformed.
StepWalltimeMalformed == SecondsOf(step.walltime) = {}

IsTerminationStep(c) == c.fn = "sp.call" \/ c.topic = "job.kvspath"
TerminationSteps == SelectSeq(calls, IsTerminationStep)

\* The steps that the strict order allows for job j: the cancel; the kill
\* only after a rejected cancel; the re-poll only after a rejected kill.
StepsInOrder(j) ==
    <<CancelCall(j)>>
    \o (IF tool[j].cancel # 0 THEN <<KillCall(j)>> ELSE <<>>)
    \o (IF tool[j].cancel # 0 /\ tool[j].kill # 0
        THEN <<Call("rpc_send", "job.kvspath", <<j>>, "")>> ELSE <<>>)

\* The steps of the jobs of the batch from position i on, one job after the
\* other.
RECURSIVE BatchStepsFrom(_)
BatchStepsFrom(i) ==
    IF i > Len(Batch) THEN <<>>
    ELSE StepsInOrder(Batch[i]) \o BatchStepsFrom(i + 1)

\* C18: for each job of cancel_jobs exactly one cancel is issued, then the
\* kill only if the cancel returned nonzero, then the re-poll only if the
\* kill returned nonzero too, and nothing more once a step is accepted; the
\* store is read only within a re-poll.
C18_StrictOrder ==
    op = "cancel_jobs" =>
        /\ TerminationSteps = BatchStepsFrom(1)
        /\ (\A i \in 1 .. Len(Batch) : Accepted(Batch[i])) =>
               \A n \in 1 .. Len(calls) : calls[n].fn = "sp.call"

\* C18's case: in one batch the first job's cancel is accepted and the
\* second job goes through cancel, kill and re-poll.
C18_Witness ==
    /\ op = "cancel_jobs"
    /\ Len(Batch) = 2
    /\ tool[Batch[1]].cancel = 0
    /\ RejectedTwice(Batch[2])
    /\ Len(TerminationSteps) = 4


\* The creations of a connection handle among the calls of the last
\* operation.
Connections == {n \in 1 .. Len(calls) : calls[n].fn = "Flux"}

\* The last operation used the remote channel.
UsedChannel == \E n \in 1 .. Len(calls) : calls[n].fn = "rpc_send"

\* C19: an operation that finds a handle creates none and leaves the handle
\* in place, whatever its result; an operation that finds no handle creates
\* one exactly when it needs the remote channel, and only one; so the handle
\* of an instance is created at most once and never cleared.
C19_ConnectOnce ==
    /\ h_before = "Flux" => (h = "Flux" /\ Connections = {})
    /\ h_before = "None" =>
           /\ Cardinality(Connections) <= 1
           /\ h = "Flux" <=> Connections # {}
           /\ UsedChannel <=> Connections # {}

\* C19's case: a submit that found the handle of an earlier call has ended
\* in a protocol error, and the handle is still there.
C19_Witness ==
    /\ op = "submit"
    /\ h_before = "Flux"
    /\ sent # <<>>
    /\ ret.code = "ERROR"
    /\ h = "Flux"
    /\ UsedChannel


\* The job.kvspath requests among the calls of the last operation.
IsKvspath(c) == c.fn = "rpc_send" /\ c.topic = "job.kvspath"
Kvspaths == SelectSeq(calls, IsKvspath)

\* One job.kvspath request for the identifiers ids.
KvspathFor(ids) == Call("rpc_send", "job.kvspath", ids, "")

\* The jobs of the batch from position i on whose cancel and kill are both
\* rejected, each with a request of its own.
RECURSIVE RepollRequestsFrom(_)
RepollRequestsFrom(i) ==
    IF i > Len(Batch) THEN <<>>
    ELSE (IF RejectedTwice(Batch[i])
          THEN <<KvspathFor(<<Batch[i]>>)>> ELSE <<>>)
         \o RepollRequestsFrom(i + 1)

\* C20 as claimed: a check_jobs that polls issues exactly one job.kvspath
\* request, with the whole list, and the polling of a cancel_jobs on a batch
\* issues no more than one request either.
C20_OneKvspathEver ==
    /\ Polled => Kvspaths = <<KvspathFor(PolledList)>>
    /\ op = "cancel_jobs" => Len(Kvspaths) <= 1

\* C20 amended: a check_jobs that polls issues exactly one job.kvspath
\* request, with the whole list, and one that does not poll issues none;
\* cancel_jobs polls once for each job rejected twice, so it issues one
\* request per such job, in batch order, each with that job alone.
C20_OneKvspathPerPoll ==
    /\ op = "check_jobs" =>
           Kvspaths = IF Polled THEN <<KvspathFor(PolledList)>> ELSE <<>>
    /\ op = "cancel_jobs" => Kvspaths = RepollRequestsFrom(1)

\* C20's case: a cancel_jobs on two jobs, both rejected twice, has issued
\* two job.kvspath requests.
C20_Witness ==
    /\ op = "cancel_jobs"
    /\ Len(Batch) = 2
    /\ RejectedTwice(Batch[1])
    /\ RejectedTwice(Batch[2])
    /\ Len(Kvspaths) = 2


\* The GPU count of the last step, with the fallback of 0.
StepGpus == IF Truthy(step.gpus) THEN step.gpus.val ELSE 0

\* C21 as claimed: in the job request of both variants cores-per-task is 1
\* and the GPU count is 0 when the step omits the field or gives a falsy
\* value (0 or None), and an omitted cores-per-task does not make the submit
\* of an otherwise well-configured step raise.  Steps have at least one
\* node.
C21_FalsyFallbacks ==
    (op = "submit" /\ step.nodes >= 1) =>
        /\ sent # <<>> =>
               /\ sent[1].cores_per_task = IntV(StepCoresPerTask)
               /\ sent[1].gpus = IntV(StepGpus)
        /\ ( /\ step.cores_per_task = Absent
             /\ step.procs.kind = "int"
             /\ ~StepWalltimeMalformed
             /\ ~StepMisconfigured )
           => ret.raised = ""


\* C22 as claimed: a _write_script for a step with a malformed walltime
\* raises, whether or not the step is to be scheduled, and returns no script
\* paths.
C22_MalformedWalltimeFails ==
    (op = "_write_script" /\ StepWalltimeMalformed) =>
        (ret.raised # "" /\ ret.script = NoScript)


\* The header lines that the last step asks for: its node count, or the
\* adapter's default of one node when it gives none, and its walltime in
\* seconds.
NodesLine ==
    (IF variant = "spectrum" THEN "#SBATCH -N " ELSE "#INFO (nodes) ")
    \o (IF step.nodes = 0 THEN "1" ELSE ToString(step.nodes))

WalltimeLines ==
    {(IF variant = "spectrum" THEN "#SBATCH -t " ELSE "#INFO (walltime) ")
         \o ToString(t) : t \in SecondsOf(step.walltime)}

\* The step of the last _write_script has a restart command.
RestartGiven == sched.restart \notin {NoneS, StrV("")}

\* File f is well formed for command cmd: a prefix without empty line, an
\* empty line, and the command.
WellFormedScript(f, cmd) ==
    /\ Len(f.lines) >= 3
    /\ f.lines[Len(f.lines)] = cmd
    /\ f.lines[Len(f.lines) - 1] = ""
    /\ \A i \in 1 .. Len(f.lines) - 2 : f.lines[i] # ""
    /\ f.lines[1] = _exec
    /\ IF sched.to_be_scheduled
       THEN /\ HasLine(f, NodesLine)
            /\ \E l \in WalltimeLines : HasLine(f, l)
       ELSE Prefix(f) = <<_exec>>

SshNames == { <<"S", "S", "H", "_", "A">>, <<"S", "S", "H", "_">> }

\* The names that the result of get_environment never holds.
DroppedNames == SshNames \cup {HOSTNAME, ENVIRONMENT}

\* C24: the result of get_environment is determined by the environment: it
\* holds no name that starts with SSH_, neither HOSTNAME nor ENVIRONMENT,
\* MPIRUN_RSH_LAUNCH with the value "1" whatever the environment holds for
\* it, and every other variable of the environment with its value; so two
\* calls on equal environments give equal results.
C24_EnvironmentFiltered ==
    op = "get_environment" =>
        /\ DOMAIN ret.env =
               (DOMAIN environ \ DroppedNames) \cup {MPIRUN_RSH_LAUNCH}
        /\ ret.env[MPIRUN_RSH_LAUNCH] = "1"
        /\ \A k \in DOMAIN ret.env \ {MPIRUN_RSH_LAUNCH} :
               ret.env[k] = environ[k]

\* C24's case: an environment with an SSH_ variable, a variable with SSH_
\* inside its name, HOSTNAME and MPIRUN_RSH_LAUNCH at "0" has been filtered.
C24_Witness ==
    /\ op = "get_environment"
    /\ DOMAIN environ = EnvNames
    /\ environ[MPIRUN_RSH_LAUNCH] = "0"
    /\ ret.env[MPIRUN_RSH_LAUNCH] = "1"
    /\ <<"X", "S", "S", "H", "_">> \in DOMAIN ret.env
    /\ <<"S", "S", "H", "_", "A">> \notin DOMAIN ret.env
    /\ ret.env[PATH] = "/usr/bin"


\* The last call was one that reads the step and the batch parameters.
ReadsStep == op \in {"get_header", "_write_script", "submit"}

\* C25: get_header, _write_script and submit leave the step and the
\* adapter's batch parameters as they were: step.run keeps its "nodes" (the
\* only key that any of them removes, from its own copy) and self._batch
\* keeps the values of construction, after every sequence of calls.
C25_StepAndBatchUnchanged ==
    /\ batch = InitBatch
    /\ ReadsStep => has_nodes

\* C25's case: a step with two nodes that is to be scheduled has been
\* written with a restart script, so get_header ran twice with the step's
\* node count in its header, and the batch default is still one node.
C25_Witness ==
    /\ Emitted
    /\ sched.to_be_scheduled
    /\ step.nodes = 2
    /\ Len(files) = 2
    /\ HasLine(files[2], NodesLine)
    /\ has_nodes
    /\ batch.nodes = StrV("1")


\* C26: check_jobs never returns NOJOBS: whatever the argument and whatever
\* the store answers, it returns OK or ERROR, and a call that goes through
\* its loop has an entry for every requested identifier.
C26_NeverNoJobs ==
    op = "check_jobs" =>
        /\ ret.code \in {"OK", "ERROR"}
        /\ Polled =>
               /\ PolledList # <<>>
               /\ DOMAIN ret.status = {PolledList[i] : i \in 1 .. Len(PolledList)}

\* C26's case: a check_jobs has gone through its whole loop without
\* resolving any job (each one is not found in the store) and has come to
\* the final test, which returns OK.
C26_Witness ==
    /\ Polled
    /\ Len(PolledList) = 2
    /\ \A j \in DOMAIN ret.status :
           FaultOf(j) = "EnvironmentError" /\ ret.status[j] = "UNKNOWN"
    /\ ret.code = "OK"


\* The re-poll of job j fails: a read of the store raises, which leaves the
\* job unresolved or reported as UNKNOWN.
RepollFails(j) == RejectedTwice(j) /\ FaultOf(j) # ""

\* C27: in cancel_jobs, a job whose cancel and kill are both rejected and
\* whose re-poll fails (the job stays unresolved after an I/O fault, or is
\* reported UNKNOWN because it is not found) is a cancellation failure: the
\* result is ERROR, also when that re-poll itself returned the code OK.
C27_FailedRepollIsError ==
    op = "cancel_jobs" =>
        \A i \in 1 .. Len(Batch) :
            RepollFails(Batch[i]) =>
                /\ RepollReports(Batch[i]) \in {"None", "UNKNOWN"}
                /\ ret.code = "ERROR"

\* C27's case: the only job of the batch is rejected twice and its re-poll
\* reports UNKNOWN with the code OK; the result is ERROR.
C27_Witness ==
    /\ op = "cancel_jobs"
    /\ Len(Batch) = 1
    /\ RepollFails(Batch[1])
    /\ RepollReports(Batch[1]) = "UNKNOWN"
    /\ check_jobs(variant, python3, "Flux", joblist, world).code = "OK"
    /\ ret.code = "ERROR"


\* The variant that the instance is not.
OtherVariant == IF variant = "spectrum" THEN "flux" ELSE "spectrum"

====
